---- MODULE Spec2Model ----
(***************************************************************************)
(* Model of the ADS-B track reconstruction pipeline of adsb_tools.py:      *)
(* read_adsb (normalizer, day-boundary resolver, segmenter, downsampling,  *)
(* minimum-length pruning), the two query entry points and the airport     *)
(* classifiers.                                                            *)
(*                                                                         *)
(* Representation.                                                         *)
(*  - A string is a sequence of one-character strings, so that strip,      *)
(*    the regular expressions and the f-string of the code are computed.   *)
(*  - A float time-of-day is held in tenths of a second, a height in feet, *)
(*    a longitude or latitude in hundredths of a degree.                   *)
(*  - An optional keyword argument is a set: {} is None, {v} is the value. *)
(*  - A calendar date is a day number (days since 1970-01-01).             *)
(*  - A table is a sequence of rows; every row carries its pandas index    *)
(*    label in the field "index".                                          *)
(***************************************************************************)
EXTENDS Integers, Sequences, FiniteSets, TLC

VARIABLES fname, datestr, kwargs, args, pc, fn, df, df2seg, df2ds, df2, df_geo, result, exc

vars == <<fname, datestr, kwargs, args, pc, fn, df, df2seg, df2ds, df2, df_geo, result, exc>>

(***************************************************************************)
(* Strings                                                                 *)
(***************************************************************************)

\* The code point of a character: Python compares and sorts strings by it.
CharCode(c) ==
    CASE c = " " -> 32
      [] c = "." -> 46
      [] c = "0" -> 48
      [] c = "1" -> 49
      [] c = "2" -> 50
      [] c = "3" -> 51
      [] c = "4" -> 52
      [] c = "5" -> 53
      [] c = "6" -> 54
      [] c = "7" -> 55
      [] c = "8" -> 56
      [] c = "9" -> 57
      [] c = "A" -> 65
      [] c = "B" -> 66
      [] c = "_" -> 95

RECURSIVE StrLess(_, _)
\* s < t for Python strings (lexicographic by code point).
StrLess(s, t) ==
    IF t = <<>> THEN FALSE
    ELSE IF s = <<>> THEN TRUE
    ELSE IF Head(s) = Head(t) THEN StrLess(Tail(s), Tail(t))
    ELSE CharCode(Head(s)) < CharCode(Head(t))

RECURSIVE LStrip(_)
LStrip(s) ==
    IF s # <<>> /\ Head(s) = " " THEN LStrip(Tail(s)) ELSE s

RECURSIVE RStrip(_)
RStrip(s) ==
    IF s # <<>> /\ s[Len(s)] = " " THEN RStrip(SubSeq(s, 1, Len(s) - 1)) ELSE s

\* str.strip(): leading and trailing whitespace removed.
Strip(s) == RStrip(LStrip(s))

\* re.search('^0+$', s): one or more characters, every one of them '0'.
MatchesAllZero(s) == Len(s) >= 1 /\ \A k \in 1..Len(s) : s[k] = "0"

RECURSIVE Str(_)
\* str(n) of a natural number: its decimal digits.
Str(n) ==
    LET digit == <<"0", "1", "2", "3", "4", "5", "6", "7", "8", "9">>[(n % 10) + 1]
    IN  IF n < 10 THEN <<digit>> ELSE Str(n \div 10) \o <<digit>>

\* f'{i}_{suffix}'
FormatId(i, suffix) == i \o <<"_">> \o Str(suffix)

\* re.search(pat, s) for a pattern of literal characters and '.', which
\* matches any character: Series.str.contains takes its argument as a
\* regular expression (regex=True is the default).
RegexContains(s, pat) ==
    \E start \in 0..(Len(s) - Len(pat)) :
        \A k \in 1..Len(pat) : pat[k] = "." \/ pat[k] = s[start + k]

RECURSIVE SortedStrings(_)
\* The strings of a finite set, ascending: the key order of a groupby.
SortedStrings(S) ==
    IF S = {} THEN <<>>
    ELSE LET m == CHOOSE x \in S : \A y \in S \ {x} : StrLess(x, y)
         IN  <<m>> \o SortedStrings(S \ {m})

(***************************************************************************)
(* Optional keyword arguments                                              *)
(***************************************************************************)

None == {}

Some(v) == {v}

\* Python truthiness of an optional number: None and 0 are both false.
Truthy(opt) == \E v \in opt : v # 0

Value(opt) == CHOOSE v \in opt : TRUE

(***************************************************************************)
(* read_adsb: the record normalizer                                        *)
(***************************************************************************)

\* The columns read_adsb retains; a raw row names in "na" those among them
\* whose field is empty in the file.
Columns == {"timeforpos", "lat", "lon", "height", "id"}

\* pd.read_csv and the column selection: the rows of the file in file
\* order, labelled by a RangeIndex 0, 1, 2, ...
ReadCsv(file) ==
    [p \in 1..Len(file) |->
        [index |-> p - 1, timeforpos |-> file[p].timeforpos, lat |-> file[p].lat,
         lon |-> file[p].lon, height |-> file[p].height, id |-> file[p].id,
         na |-> file[p].na]]

\* df.dropna(): a row with any empty field goes.
DropNa(t) == SelectSeq(t, LAMBDA r : r.na = {})

\* df['id'].str.strip()
StripIds(t) == [p \in 1..Len(t) |-> [t[p] EXCEPT !.id = Strip(t[p].id)]]

\* df.loc[df.id.str.len() != 0]
DropEmptyIds(t) == SelectSeq(t, LAMBDA r : Len(r.id) # 0)

\* df.loc[~df['id'].str.contains('^0+$')]
DropZeroIds(t) == SelectSeq(t, LAMBDA r : ~MatchesAllZero(r.id))

\* if floor: df = df.loc[(df.height >= floor)]
ApplyFloor(t, floor) ==
    IF Truthy(floor) THEN SelectSeq(t, LAMBDA r : r.height >= Value(floor)) ELSE t

\* if ceiling: df = df.loc[(df.height <= ceiling)]
ApplyCeiling(t, ceiling) ==
    IF Truthy(ceiling) THEN SelectSeq(t, LAMBDA r : r.height <= Value(ceiling)) ELSE t

\* The table read_adsb holds when it reaches the day-boundary resolver.
Normalize(file, floor, ceiling) ==
    ApplyCeiling(ApplyFloor(DropZeroIds(DropEmptyIds(StripIds(DropNa(ReadCsv(file))))),
                            floor), ceiling)

(***************************************************************************)
(* read_adsb: the day-boundary resolver                                    *)
(***************************************************************************)

\* pd.Timedelta(1, unit='day'), in seconds.
SecondsPerDay == 86400

\* date2: the calendar day datestr names.
date2(d) == d

\* date1 = pd.to_datetime(date2) - pd.Timedelta(1, unit='day')
date1(d) == date2(d) - 1

\* df['timeforpos'].min()
MinTimeforpos(t) ==
    CHOOSE m \in {t[p].timeforpos : p \in 1..Len(t)} :
        \A p \in 1..Len(t) : m <= t[p].timeforpos

\* dayidx = df.loc[df['timeforpos'] == df['timeforpos'].min()].index[0]:
\* the label of the first row holding the minimum. On an empty table the
\* selection is empty and .index[0] raises IndexError (see read_adsb).
dayidx(t) ==
    LET first == CHOOSE p \in 1..Len(t) :
                    /\ t[p].timeforpos = MinTimeforpos(t)
                    /\ \A q \in 1..(p - 1) : t[q].timeforpos # MinTimeforpos(t)
    IN  t[first].index

\* pd.to_datetime(x, unit='s').dt.time: the clock time of x seconds, in
\* tenths of a second since midnight.
DtTime(x) == x % (SecondsPerDay * 10)

\* astype(str) and x[0:8]: 'HH:MM:SS', the whole seconds of a clock time.
ClockSeconds(c) == c \div 10

\* Mutant: the row at dayidx is stamped with the previous day too.
StampDate_ThroughDayidx(index, didx, d) == IF index <= didx THEN date1(d) ELSE date2(d)

\* The date a row is stamped with: .loc[:dayidx-1] takes date1 and
\* .loc[dayidx:] takes date2 (label slices of a sorted integer index).
StampDate(index, didx, d) == IF index <= didx - 1 THEN date1(d) ELSE date2(d)

\* pd.Timestamp.timestamp: the epoch seconds of a datetime.
Timestamp(dt) == dt.date * SecondsPerDay + dt.time

\* Lines 75-82: datetime, unix_timestamp and the shapely Point of each row.
Stamp(t, d) ==
    LET didx == dayidx(t)
    IN  [p \in 1..Len(t) |->
            LET dt == [date |-> StampDate(t[p].index, didx, d),
                       time |-> ClockSeconds(DtTime(t[p].timeforpos))]
            IN  [index |-> t[p].index, timeforpos |-> DtTime(t[p].timeforpos),
                 lat |-> t[p].lat, lon |-> t[p].lon, height |-> t[p].height,
                 id |-> t[p].id, datetime |-> dt, unix_timestamp |-> Timestamp(dt),
                 geometry |-> <<t[p].lon, t[p].lat, t[p].height>>]]

(***************************************************************************)
(* read_adsb: the track segmenter                                          *)
(***************************************************************************)

\* pd.Timedelta(15, unit='min'), in seconds.
GapLimit == 900

\* tmp['datetime2'] - tmp['datetime'], in seconds.
Timediff(a, b) == Timestamp(b) - Timestamp(a)

\* Mutant: a gap of exactly 15 minutes splits too.
ExceedsGap_Inclusive(delta) == delta >= GapLimit \/ delta <= -GapLimit

\* Mutant: only the forward gaps split.
ExceedsGap_ForwardOnly(delta) == delta > GapLimit

\* (timediff > 15 min) | (timediff < -15 min)
ExceedsGap(delta) == delta > GapLimit \/ delta < -GapLimit

\* by_id.get_group(i): the rows of one identifier, order and labels kept.
get_group(t, i) == SelectSeq(t, LAMBDA r : r.id = i)

\* The labels of the rows whose successor in the group lies beyond the gap
\* limit; the last row's timediff is NaT and compares false.
indices(tmp) ==
    LET pos == SelectSeq([p \in 1..Len(tmp) |-> p],
                         LAMBDA p : p < Len(tmp)
                                    /\ ExceedsGap(Timediff(tmp[p].datetime, tmp[p + 1].datetime)))
    IN  [k \in 1..Len(pos) |-> tmp[pos[k]].index]

\* The first position of the label slice tmp.loc[label:], 0 when pandas
\* raises KeyError: the position of the label when it is in the index;
\* else the insertion point when the index is sorted ascending or
\* descending; else KeyError.
LocStart(tmp, label) ==
    LET n == Len(tmp)
        lab == [p \in 1..n |-> tmp[p].index]
        inc == \A p \in 1..(n - 1) : lab[p] <= lab[p + 1]
        dec == \A p \in 1..(n - 1) : lab[p] >= lab[p + 1]
    IN  IF \E p \in 1..n : lab[p] = label
        THEN CHOOSE p \in 1..n : lab[p] = label
        ELSE IF inc THEN 1 + Cardinality({p \in 1..n : lab[p] < label})
        ELSE IF dec THEN 1 + Cardinality({p \in 1..n : lab[p] > label})
        ELSE 0

\* Mutant: the slice starts at the row before the gap.
SliceFrom_RowBeforeGap(idx) == idx

\* The first label of the slice that takes the new identifier: idx + 1.
SliceFrom(idx) == idx + 1

RECURSIVE SuffixLoop(_, _, _, _)
\* for idx in indices: tmp.loc[idx+1:, 'id'] = f'{i}_{suffix}'; suffix += 1
SuffixLoop(tmp, idxs, suffix, i) ==
    IF idxs = <<>> THEN [exc |-> "", df |-> tmp]
    ELSE LET start == LocStart(tmp, SliceFrom(Head(idxs)))
         IN  IF start = 0 THEN [exc |-> "KeyError", df |-> tmp]
             ELSE SuffixLoop([p \in 1..Len(tmp) |->
                                 IF p >= start
                                 THEN [tmp[p] EXCEPT !.id = FormatId(i, suffix)]
                                 ELSE tmp[p]],
                             Tail(idxs), suffix + 1, i)

RECURSIVE GroupLoop(_, _, _)
\* for i in by_id.groups.keys(): ... df2 = pd.concat([df2, tmp])
GroupLoop(t, keys, acc) ==
    IF keys = <<>> THEN [exc |-> "", df |-> acc]
    ELSE LET tmp == get_group(t, Head(keys))
             r == SuffixLoop(tmp, indices(tmp), 1, Head(keys))
         IN  IF r.exc # "" THEN [exc |-> r.exc, df |-> acc]
             ELSE GroupLoop(t, Tail(keys), acc \o r.df)

\* Lines 84-97: group by identifier (keys ascending), split each group at
\* its gaps, concatenate the groups.
Segment(t) == GroupLoop(t, SortedStrings({t[p].id : p \in 1..Len(t)}), <<>>)

(***************************************************************************)
(* read_adsb: downsampling and minimum-length pruning                      *)
(***************************************************************************)

\* if downsample: df2 = df2.iloc[::downsample, :]
Downsample(t, downsample) ==
    IF Truthy(downsample)
    THEN LET pos == SelectSeq([p \in 1..Len(t) |-> p],
                              LAMBDA p : (p - 1) % Value(downsample) = 0)
         IN  [k \in 1..Len(pos) |-> t[pos[k]]]
    ELSE t

\* df2.id.value_counts()[i]
ValueCount(t, i) == Cardinality({p \in 1..Len(t) : t[p].id = i})

\* Mutant: only the identifiers with fewer than 2 fixes are dropped.
dropid_FewerThanTwo(t) == {i \in {t[p].id : p \in 1..Len(t)} : ValueCount(t, i) < 2}

\* dropid: the identifiers with value_counts() <= 2.
dropid(t) == {i \in {t[p].id : p \in 1..Len(t)} : ValueCount(t, i) <= 2}

\* df2.loc[[True if x not in dropid else False for x in df2.id]]
Prune(t) == SelectSeq(t, LAMBDA r : r.id \notin dropid(t))

\* df2[['id','datetime','unix_timestamp','geometry']]
KeepColumns(t) ==
    [p \in 1..Len(t) |->
        [index |-> t[p].index, id |-> t[p].id, datetime |-> t[p].datetime,
         unix_timestamp |-> t[p].unix_timestamp, geometry |-> t[p].geometry]]

\* reset_index(drop=True): the labels become 0, 1, 2, ...
ResetIndex(t) == [p \in 1..Len(t) |-> [t[p] EXCEPT !.index = p - 1]]

\* read_adsb: its outcome (exc is "" when it returns) and the tables it
\* held on the way: df at line 82, df2 at lines 97, 101 and 114.
read_adsb(file, d, kw) ==
    LET n == Normalize(file, kw.floor, kw.ceiling)
    IN  IF n = <<>>
        THEN [exc |-> "IndexError", df |-> <<>>, df2seg |-> <<>>, df2ds |-> <<>>,
              df2 |-> <<>>]
        ELSE LET st == Stamp(n, d)
                 seg == Segment(st)
                 ds == Downsample(seg.df, kw.downsample)
             IN  IF seg.exc # ""
                 THEN [exc |-> seg.exc, df |-> st, df2seg |-> <<>>, df2ds |-> <<>>,
                       df2 |-> <<>>]
                 ELSE [exc |-> "", df |-> st, df2seg |-> seg.df, df2ds |-> ds,
                       df2 |-> ResetIndex(KeepColumns(Prune(ds)))]

(***************************************************************************)
(* The airport classifiers                                                 *)
(***************************************************************************)

\* p.coords[0] and p.coords[-1] of a LineString held as a list of points;
\* within a point, 1 is longitude, 2 is latitude, 3 is height.
FirstCoord(p) == p[1]

LastCoord(p) == p[Len(p)]

\* Mutant: the upper latitude bound of the box is exclusive.
InWSSS_LatExclusive(c) == (10390 <= c[1] /\ c[1] <= 10410) /\ (130 <= c[2] /\ c[2] < 140)

\* (103.9 <= c[0] <= 104.1) and (1.3 <= c[1] <= 1.4)
InWSSS(c) == (10390 <= c[1] /\ c[1] <= 10410) /\ (130 <= c[2] /\ c[2] <= 140)

\* (103.86 <= c[0] <= 103.88) and (1.40 <= c[1] <= 1.43)
InWSSL(c) == (10386 <= c[1] /\ c[1] <= 10388) /\ (140 <= c[2] /\ c[2] <= 143)

\* WSSS_arrdep(p, arrdep): ret is the value returned, exc is "ValueError"
\* when the function raises.
WSSS_arrdep(p, arrdep) ==
    IF arrdep = Some("arr") THEN [exc |-> "", ret |-> InWSSS(LastCoord(p))]
    ELSE IF arrdep = Some("dep") THEN [exc |-> "", ret |-> InWSSS(FirstCoord(p))]
    ELSE IF arrdep = None
         THEN [exc |-> "", ret |-> InWSSS(LastCoord(p)) \/ InWSSS(FirstCoord(p))]
    ELSE [exc |-> "ValueError", ret |-> FALSE]

\* WSSL_arrdep(p, arrdep)
WSSL_arrdep(p, arrdep) ==
    IF arrdep = Some("arr") THEN [exc |-> "", ret |-> InWSSL(LastCoord(p))]
    ELSE IF arrdep = Some("dep") THEN [exc |-> "", ret |-> InWSSL(FirstCoord(p))]
    ELSE IF arrdep = None
         THEN [exc |-> "", ret |-> InWSSL(LastCoord(p)) \/ InWSSL(FirstCoord(p))]
    ELSE [exc |-> "ValueError", ret |-> FALSE]

\* The keys of the dict airport_filters.
airport_filters == {"WSSS", "WSSL"}

\* airport_filters[airport](p, arrdep), for a key of the dict.
ApplyFilter(airport, p, arrdep) ==
    IF airport = "WSSS" THEN WSSS_arrdep(p, arrdep) ELSE WSSL_arrdep(p, arrdep)

(***************************************************************************)
(* The query entry points                                                  *)
(***************************************************************************)

\* df.loc[df['id'].str.contains(flightid)], then reset_index.
FilterFlightid(t, flightid) ==
    ResetIndex(SelectSeq(t, LAMBDA r : RegexContains(r.id, flightid)))

\* df.groupby('id')['geometry'].apply(list), then .apply(LineString): one
\* row per identifier, keys ascending, holding the points of its fixes.
Linestrings(t) ==
    LET keys == SortedStrings({t[p].id : p \in 1..Len(t)})
    IN  [k \in 1..Len(keys) |->
            LET g == get_group(t, keys[k])
            IN  [id |-> keys[k], geometry |-> [q \in 1..Len(g) |-> g[q].geometry]]]

\* Lines 187-193: the dict lookup raises KeyError for an unknown airport;
\* Series.apply calls the filter once per row (not at all on an empty
\* Series), and a call that raises aborts the query.
FilterAirport(geo, airport, arrdep) ==
    IF airport \notin airport_filters THEN [exc |-> "KeyError", ret |-> <<>>]
    ELSE IF \E k \in 1..Len(geo) : ApplyFilter(airport, geo[k].geometry, arrdep).exc # ""
         THEN [exc |-> "ValueError", ret |-> <<>>]
    ELSE [exc |-> "",
          ret |-> SelectSeq(geo, LAMBDA g : ApplyFilter(airport, g.geometry, arrdep).ret)]

\* read_adsb_byflightid: read_adsb, then the filter on the identifier.
read_adsb_byflightid(file, d, flightid, kw) ==
    LET r == read_adsb(file, d, kw)
    IN  IF r.exc # "" THEN [exc |-> r.exc, read |-> r, df_geo |-> <<>>, ret |-> <<>>]
        ELSE [exc |-> "", read |-> r, df_geo |-> <<>>,
              ret |-> FilterFlightid(r.df2, flightid)]

\* read_adsb_byairport: read_adsb, one LineString per identifier, then the
\* airport filter.
read_adsb_byairport(file, d, airport, arrdep, kw) ==
    LET r == read_adsb(file, d, kw)
        geo == Linestrings(r.df2)
        f == FilterAirport(geo, airport, arrdep)
    IN  IF r.exc # "" THEN [exc |-> r.exc, read |-> r, df_geo |-> <<>>, ret |-> <<>>]
        ELSE [exc |-> f.exc, read |-> r, df_geo |-> geo, ret |-> f.ret]

(***************************************************************************)
(* Inputs                                                                  *)
(***************************************************************************)

\* The longest file of the segmentation runs, of the day-boundary runs and
\* of the normalizer runs, and the most fixes between the first and the
\* last fix of a track in the query runs.
MaxRows == 5

MaxDayRows == 4

MaxNormRows == 3

MaxMidRows == 1

A == <<"A">>

A_1 == <<"A", "_", "1">>

B == <<"B">>

Row(t, lon, lat, h, i, na) ==
    [timeforpos |-> t, lat |-> lat, lon |-> lon, height |-> h, id |-> i, na |-> na]

SeqsUpTo(S, n) == UNION {[1..k -> S] : k \in 0..n}

NoKwargs == [downsample |-> None, floor |-> None, ceiling |-> None]

DefaultArgs == [flightid |-> A, airport |-> "WSSS", arrdep |-> None]

\* Segmentation runs. Fixes of A at the times of day 00:00:10.0, 00:15:10.5
\* and 00:30:10.5 (15 and 30 minutes apart once stamped) and fixes of a
\* second raw identifier, spelled like a suffixed identifier, at 00:00:10.0;
\* stride unset, 1 or 2.
SegRows ==
    {Row(t, 10400, 135, 1000, A, {}) : t \in {100, 9105, 18105}}
    \cup {Row(100, 10400, 135, 1000, A_1, {})}

SegKwargs ==
    {[downsample |-> n, floor |-> None, ceiling |-> None] : n \in {None, Some(1), Some(2)}}

\* Day-boundary runs. One identifier; times of day just after midnight and
\* just before it, with and without a fraction of a second; two dates.
DayRows ==
    {Row(t, 10400, 135, 1000, A, {}) : t \in {100, 105, 863990, 863995}}

\* 2023-05-10 and 2024-01-01 as day numbers.
DayDates == {19487, 19723}

\* Normalizer runs. A padded identifier at heights below, at and above the
\* bounds, an all-zero identifier, a blank identifier, and rows with an
\* empty identifier or height field; each bound unset, 0 or 100 feet.
NormRows ==
    {Row(100, 10400, 135, h, <<" ", "A", " ">>, {}) : h \in {-50, 0, 100, 200}}
    \cup {Row(100, 10400, 135, 100, i, {}) : i \in {<<"0", "0">>, <<" ">>}}
    \cup {Row(100, 10400, 135, 100, A, {c}) : c \in {"id", "height"}}

NormKwargs ==
    {[downsample |-> None, floor |-> f, ceiling |-> c] :
        f \in {None, Some(0), Some(100)}, c \in {None, Some(0), Some(100)}}

\* Query runs. A file is at most two fixes of A (pruned), or a track of A
\* whose first and last fix lie at the corners of, inside or just outside
\* the two boxes, alone or followed by a track of B; heights of 3000 feet
\* and, at two of the points, 135 feet.
QueryPoints ==
    {<<10390, 130>>, <<10410, 140>>, <<10389, 135>>, <<10411, 135>>, <<10400, 129>>,
     <<10400, 141>>, <<10386, 140>>, <<10388, 143>>, <<10385, 141>>, <<10389, 141>>,
     <<10387, 139>>, <<10387, 144>>}

EndRows ==
    {Row(100, c[1], c[2], 3000, A, {}) : c \in QueryPoints}
    \cup {Row(100, c[1], c[2], 135, A, {}) : c \in {<<10410, 140>>, <<10385, 141>>}}

MidRows == {Row(100, c[1], c[2], 3000, A, {}) : c \in {<<10400, 135>>, <<10300, 100>>}}

BTrack == [k \in 1..3 |-> Row(100, 10387, 141, 3000, B, {})]

QueryFiles ==
    LET short == SeqsUpTo(MidRows, 2)
        track == {<<f>> \o m \o <<l>> :
                     f \in EndRows, l \in EndRows,
                     m \in SeqsUpTo(MidRows, MaxMidRows) \ {<<>>}}
    IN  short \cup track \cup {t \o BTrack : t \in track}

QueryArgs ==
    {[flightid |-> A, airport |-> a, arrdep |-> m] :
        a \in {"WSSS", "WSSL", "WMKK"},
        m \in {None, Some("arr"), Some("dep"), Some("arrival")}}
    \cup {[flightid |-> f, airport |-> "WSSS", arrdep |-> None] : f \in {B, A_1, <<".">>}}

(***************************************************************************)
(* The state machine: one call of an entry point                           *)
(***************************************************************************)

Start ==
    /\ pc = "call" /\ fn = "" /\ exc = ""
    /\ df = <<>> /\ df2seg = <<>> /\ df2ds = <<>> /\ df2 = <<>>
    /\ df_geo = <<>> /\ result = <<>>

Init ==
    /\ fname \in SeqsUpTo(SegRows, MaxRows)
    /\ datestr = 19487
    /\ kwargs \in SegKwargs
    /\ args = DefaultArgs
    /\ Start

InitDay ==
    /\ fname \in SeqsUpTo(DayRows, MaxDayRows)
    /\ datestr \in DayDates
    /\ kwargs = NoKwargs
    /\ args = DefaultArgs
    /\ Start

InitNorm ==
    /\ fname \in SeqsUpTo(NormRows, MaxNormRows)
    /\ datestr = 19487
    /\ kwargs \in NormKwargs
    /\ args = DefaultArgs
    /\ Start

InitQuery ==
    /\ fname \in QueryFiles
    /\ datestr = 19487
    /\ kwargs = NoKwargs
    /\ args \in QueryArgs
    /\ Start

\* The call returns or raises; the tables read_adsb held are kept for
\* inspection.
Finish(name, r, geo, ret, e) ==
    /\ pc = "call"
    /\ pc' = IF e = "" THEN "return" ELSE "raise"
    /\ fn' = name
    /\ exc' = e
    /\ df' = r.df
    /\ df2seg' = r.df2seg
    /\ df2ds' = r.df2ds
    /\ df2' = r.df2
    /\ df_geo' = geo
    /\ result' = ret
    /\ UNCHANGED <<fname, datestr, kwargs, args>>

CallReadAdsb ==
    LET r == read_adsb(fname, datestr, kwargs)
    IN  Finish("read_adsb", r, <<>>, r.df2, r.exc)

CallReadAdsbByFlightid ==
    LET q == read_adsb_byflightid(fname, datestr, args.flightid, kwargs)
    IN  Finish("read_adsb_byflightid", q.read, q.df_geo, q.ret, q.exc)

CallReadAdsbByAirport ==
    LET q == read_adsb_byairport(fname, datestr, args.airport, args.arrdep, kwargs)
    IN  Finish("read_adsb_byairport", q.read, q.df_geo, q.ret, q.exc)

Next == CallReadAdsb \/ CallReadAdsbByFlightid \/ CallReadAdsbByAirport

Spec == Init /\ [][Next]_vars

SpecDay == InitDay /\ [][Next]_vars

SpecNorm == InitNorm /\ [][Next]_vars

SpecQuery == InitQuery /\ [][Next]_vars

(***************************************************************************)
(* Vocabulary of the properties                                            *)
(***************************************************************************)

Rows(t) == {t[p] : p \in 1..Len(t)}

Ids(t) == {r.id : r \in Rows(t)}

\* The fixes of one identifier in table order.
Track(t, i) == SelectSeq(t, LAMBDA r : r.id = i)

\* A fix without its index label.
Fix(r) == <<r.id, r.datetime, r.unix_timestamp, r.geometry>>

Fixes(t) == [p \in 1..Len(t) |-> Fix(t[p])]

Abs(x) == IF x < 0 THEN -x ELSE x

\* The row of a table that carries a label.
RowAt(t, label) == CHOOSE r \in Rows(t) : r.index = label

\* Every two fixes adjacent within one identifier's track are at most 15
\* minutes apart.
GapsWithinLimit(t) ==
    \A i \in Ids(t) :
        LET g == Track(t, i)
        IN  \A p \in 1..(Len(g) - 1) :
                Abs(g[p + 1].unix_timestamp - g[p].unix_timestamp) <= 15 * 60

\* No resolved identifier is shared by fixes of two different raw
\* identifiers.
NoSharedIdentifier ==
    \A r1 \in Rows(df2seg), r2 \in Rows(df2seg) :
        r1.id = r2.id => RowAt(df, r1.index).id = RowAt(df, r2.index).id

\* The stride keeps every fix: unset, 0 or 1.
NoDownsampling == kwargs.downsample \in {None, Some(0), Some(1)}

(***************************************************************************)
(* C1: gap property of the returned table                                  *)
(***************************************************************************)

\* C1 as stated: for every input and every configuration, any two fixes
\* adjacent within one resolved identifier's track of the table read_adsb
\* returns are at most 15 minutes apart.
C1_GapProperty_AsStated == pc = "return" => GapsWithinLimit(df2)

\* C1 as amended: the same, when the stride keeps every fix and no resolved
\* identifier is shared by fixes of two different raw identifiers.
C1_GapProperty ==
    (pc = "return" /\ NoDownsampling /\ NoSharedIdentifier) => GapsWithinLimit(df2)

\* Each of the two conditions of the amended C1 is needed: TLC finds either
\* of these violated (a stride of 2 over a track with 15-minute steps; raw
\* A_1 next to a split of A).
C1_GapProperty_AnyStride == (pc = "return" /\ NoSharedIdentifier) => GapsWithinLimit(df2)

C1_GapProperty_AnyIdentifiers == (pc = "return" /\ NoDownsampling) => GapsWithinLimit(df2)

\* The file holds fixes of A alone; the first two stay A and are pruned,
\* the three after the gap are returned as A_1, the stride being unset.
C1_Witness ==
    /\ pc = "return" /\ fn = "read_adsb" /\ kwargs.downsample = None
    /\ Ids(df) = {A}
    /\ Len(Track(df2seg, A)) = 2
    /\ Len(Track(df2, A_1)) = 3

(***************************************************************************)
(* C2: the tags the segmenter gives                                        *)
(***************************************************************************)

\* The tag C2 gives the p-th fix of the group g of base identifier i: the
\* base when no adjacent pair before it is more than 15 minutes apart, else
\* base_k for the k such pairs before it.
ExpectedTag(g, p, i) ==
    LET k == Cardinality({q \in 1..(p - 1) :
                 Abs(g[q + 1].unix_timestamp - g[q].unix_timestamp) > 15 * 60})
    IN  IF k = 0 THEN i ELSE i \o <<"_">> \o Str(k)

\* C2: every fix leaves the segmenter with the tag ExpectedTag gives it,
\* and the segmenter neither adds nor loses a fix.
C2_SegmenterTags ==
    pc = "return" =>
        /\ Len(df2seg) = Len(df)
        /\ \A i \in Ids(df) :
              LET g == Track(df, i)
              IN  \A p \in 1..Len(g) :
                      RowAt(df2seg, g[p].index).id = ExpectedTag(g, p, i)

\* Four fixes of A with three gaps, one of them negative, tagged A, A_1,
\* A_2, A_3 in feed order.
C2_Witness ==
    /\ pc = "return"
    /\ Len(df) = 4 /\ Ids(df) = {A}
    /\ \E p \in 1..3 : df[p + 1].unix_timestamp - df[p].unix_timestamp < -(15 * 60)
    /\ [p \in 1..4 |-> df2seg[p].id]
         = <<A, <<"A", "_", "1">>, <<"A", "_", "2">>, <<"A", "_", "3">>>>

(***************************************************************************)
(* C9: idempotence of the segmenter                                        *)
(***************************************************************************)

\* The segmenter, applied to the table t, returns and leaves the identifier
\* of every fix unchanged.
SegmentKeepsIds(t) ==
    LET again == Segment(t)
    IN  /\ again.exc = ""
        /\ Len(again.df) = Len(t)
        /\ \A r \in Rows(again.df) : r.id = RowAt(t, r.index).id

\* C9 as stated: for every input the segmenter leaves its own output
\* unchanged.
C9_Idempotent_AsStated == pc = "return" => SegmentKeepsIds(df2seg)

\* C9 as amended: the same, when no resolved identifier is shared by fixes
\* of two different raw identifiers.
C9_Idempotent == (pc = "return" /\ NoSharedIdentifier) => SegmentKeepsIds(df2seg)

\* The output for a file of A alone that the segmenter split twice, once
\* at a negative gap: its tracks are A, A_1 and A_2.
C9_Witness ==
    /\ pc = "return" /\ NoSharedIdentifier
    /\ Ids(df) = {A}
    /\ Ids(df2seg) = {A, A_1, <<"A", "_", "2">>}
    /\ \E p \in 1..(Len(df) - 1) :
          df[p + 1].unix_timestamp - df[p].unix_timestamp < -(15 * 60)

(***************************************************************************)
(* C6: minimum-length pruning                                              *)
(***************************************************************************)

\* C6: of the table left by downsampling, an identifier with 2 fixes or
\* fewer has no fix in the returned table, an identifier with 3 or more has
\* all of its fixes there in order; every identifier of the returned table,
\* and every path handed to the airport classifier, has at least 3 fixes.
C6_Pruning ==
    pc = "return" =>
        /\ \A i \in Ids(df2ds) :
              IF Len(Track(df2ds, i)) <= 2
              THEN i \notin Ids(df2)
              ELSE Fixes(Track(df2, i)) = Fixes(Track(df2ds, i))
        /\ \A i \in Ids(df2) : Len(Track(df2, i)) >= 3
        /\ \A k \in 1..Len(df_geo) : Len(df_geo[k].geometry) >= 3

\* An airport query with a stride configured: one identifier is left with
\* exactly 2 fixes and dropped, another with exactly 3 and handed to the
\* classifier.
C6_Witness ==
    /\ pc = "return" /\ fn = "read_adsb_byairport" /\ kwargs.downsample # None
    /\ \E i \in Ids(df2ds) : Len(Track(df2ds, i)) = 2 /\ i \notin Ids(df2)
    /\ \E i \in Ids(df2ds) : Len(Track(df2ds, i)) = 3 /\ i \in Ids(df2)
    /\ Len(df_geo) = 1

(***************************************************************************)
(* C3: the day-boundary resolver                                           *)
(***************************************************************************)

\* The position in the normalized table of the first row that holds the
\* minimum time of day.
FirstMinPosition ==
    CHOOSE p \in 1..Len(df) :
        /\ \A q \in 1..Len(df) : fname[df[p].index + 1].timeforpos
                                    <= fname[df[q].index + 1].timeforpos
        /\ \A q \in 1..(p - 1) : fname[df[q].index + 1].timeforpos
                                    > fname[df[p].index + 1].timeforpos

\* The day a row at position p is to be stamped with.
ExpectedDay(p) == IF p < FirstMinPosition THEN datestr - 1 ELSE datestr

\* C3 as stated: a row before dayidx is stamped (reference date - 1 day) +
\* its time of day, a row from dayidx on reference date + its time of day
\* (tenths of a second on both sides), and unix_timestamp is the epoch
\* seconds of the timestamp.
C3_DayBoundary_AsStated ==
    pc = "return" =>
        \A p \in 1..Len(df) :
            /\ (df[p].datetime.date - ExpectedDay(p)) * 864000 + df[p].datetime.time * 10
                 = fname[df[p].index + 1].timeforpos
            /\ df[p].unix_timestamp = df[p].datetime.date * 86400 + df[p].datetime.time

\* C3 as amended: the same, the time of day truncated to whole seconds.
C3_DayBoundary ==
    pc = "return" =>
        \A p \in 1..Len(df) :
            /\ (df[p].datetime.date - ExpectedDay(p)) * 86400 + df[p].datetime.time
                 = fname[df[p].index + 1].timeforpos \div 10
            /\ df[p].unix_timestamp = df[p].datetime.date * 86400 + df[p].datetime.time

\* Two rows just before midnight, then the minimum at the third row and a
\* later row with a fraction of a second: the first two are stamped with
\* the previous day, the others with the reference date.
C3_Witness ==
    /\ pc = "return" /\ Len(df) = 4
    /\ fname[1].timeforpos = 863990 /\ fname[2].timeforpos = 863995
    /\ FirstMinPosition = 3
    /\ fname[4].timeforpos = 105
    /\ [p \in 1..4 |-> df[p].datetime.date]
         = <<datestr - 1, datestr - 1, datestr, datestr>>

(***************************************************************************)
(* C8: altitude floor and ceiling                                          *)
(***************************************************************************)

\* The raw row at position p has every field and an identifier that is
\* neither blank nor all zeros: only a bound can drop it.
ValidRow(p) ==
    /\ fname[p].na = {}
    /\ Strip(fname[p].id) # <<>>
    /\ \E k \in 1..Len(Strip(fname[p].id)) : Strip(fname[p].id)[k] # "0"

\* The raw row at position p is in the normalized table.
Kept(p) == \E r \in Rows(df) : r.index = p - 1

\* C8: a valid row is kept exactly when its height is not below a
\* configured floor and not above a configured ceiling, whatever the
\* configured values are; an unset bound drops nothing.
C8_FloorCeiling ==
    pc # "call" =>
        \A p \in 1..Len(fname) :
            ValidRow(p) =>
                (Kept(p) <=>
                    /\ \A v \in kwargs.floor : fname[p].height >= v
                    /\ \A v \in kwargs.ceiling : fname[p].height <= v)

(***************************************************************************)
(* C4: no fix survives                                                     *)
(***************************************************************************)

\* Every row is dropped by the normalizer, or every identifier is pruned.
NoFixSurvives ==
    \/ Normalize(fname, kwargs.floor, kwargs.ceiling) = <<>>
    \/ (df2ds # <<>> /\ \A i \in Ids(df2ds) : Len(Track(df2ds, i)) <= 2)

\* C4: when no fix survives, the entry point returns an empty result and
\* does not raise.
C4_EmptyResult ==
    (pc # "call" /\ NoFixSurvives) => (pc = "return" /\ exc = "" /\ result = <<>>)

(***************************************************************************)
(* C5: invalid arguments of the airport query                              *)
(***************************************************************************)

\* C5: an airport query with an unknown airport, or with a mode other than
\* arrival, departure or unset, raises and returns nothing, whatever the
\* file holds.
C5_InvalidArgument ==
    (/\ pc # "call"
     /\ fn = "read_adsb_byairport"
     /\ \/ args.airport \notin {"WSSS", "WSSL"}
        \/ args.arrdep \notin {None, Some("arr"), Some("dep")})
    => (pc = "raise" /\ exc # "" /\ result = <<>>)

(***************************************************************************)
(* C7: the airport classifier                                              *)
(***************************************************************************)

\* The point (lon, lat, height) lies in the box of the airport, bounds
\* included (hundredths of a degree).
InBox(airport, c) ==
    IF airport = "WSSS"
    THEN c[1] >= 10390 /\ c[1] <= 10410 /\ c[2] >= 130 /\ c[2] <= 140
    ELSE c[1] >= 10386 /\ c[1] <= 10388 /\ c[2] >= 140 /\ c[2] <= 143

\* What C7 says of a path: the last coordinate decides in arrival mode, the
\* first in departure mode, either of them when the mode is unset.
Classified(airport, mode, path) ==
    IF mode = Some("arr") THEN InBox(airport, path[Len(path)])
    ELSE IF mode = Some("dep") THEN InBox(airport, path[1])
    ELSE InBox(airport, path[1]) \/ InBox(airport, path[Len(path)])

\* C7: for every path built by an airport query, both classifiers return in
\* each of the three modes what Classified says, and the query keeps
\* exactly the paths its classifier accepts.
C7_Classifier ==
    (pc = "return" /\ fn = "read_adsb_byairport") =>
        /\ \A k \in 1..Len(df_geo) :
              \A m \in {None, Some("arr"), Some("dep")} :
                  /\ WSSS_arrdep(df_geo[k].geometry, m)
                       = [exc |-> "", ret |-> Classified("WSSS", m, df_geo[k].geometry)]
                  /\ WSSL_arrdep(df_geo[k].geometry, m)
                       = [exc |-> "", ret |-> Classified("WSSL", m, df_geo[k].geometry)]
        /\ result = SelectSeq(df_geo, LAMBDA g : Classified(args.airport, args.arrdep, g.geometry))

\* An arrival query for WSSS over two tracks: A starts outside the box and
\* ends on its corner (104.1, 1.4) at 135 feet, with a fix outside the box
\* in between, and is kept; B is not.
C7_Witness ==
    /\ pc = "return" /\ fn = "read_adsb_byairport"
    /\ args.airport = "WSSS" /\ args.arrdep = Some("arr")
    /\ Len(df_geo) = 2
    /\ df_geo[1].geometry = <<<<10389, 135, 3000>>, <<10300, 100, 3000>>, <<10410, 140, 135>>>>
    /\ Len(result) = 1 /\ result[1].id = A

(***************************************************************************)
(* C10: the flight identifier query                                        *)
(***************************************************************************)

\* pat occurs in s as a substring.
Substring(s, pat) ==
    \E start \in 0..(Len(s) - Len(pat)) :
        \A k \in 1..Len(pat) : pat[k] = s[start + k]

====
